---- MODULE Spec2Model ----
(***************************************************************************)
(* Response aggregation and scoring engine of the brand monitor            *)
(* (src/lib/ai-utils.ts): analyzeCompetitors, calculateBrandScores,        *)
(* analyzeCompetitorsByProvider and the response interpreter               *)
(* analyzePromptWithProvider.                                              *)
(*                                                                         *)
(* Numbers.  The code rounds every published score to one decimal          *)
(* (Math.round(x * 10) / 10).  The model keeps such a value as the integer *)
(* number of tenths: 60.0 is 600, the sentinel 99 is 990.  Math.round      *)
(* rounds a tie towards +infinity; RoundDiv does the same on exact         *)
(* fractions.  0 / 0 is the one way the aggregation produces NaN; the      *)
(* model keeps it as the value NaN, which no arithmetic result equals.     *)
(***************************************************************************)
EXTENDS Integers, Sequences, FiniteSets, TLC

-----------------------------------------------------------------------------
(* Bounds *)

\* longest response list handed to the aggregation
MaxResponses == 2

\* the largest number of sentiment samples of one company
MaxSamples == 4

\* the largest number of prompt x provider units of one run
MaxUnits == 8

\* the most events performAnalysis hands to sendEvent in one run
MaxProgress == 3

-----------------------------------------------------------------------------
(* Values *)

\* company.name of the analysed brand
Brand == "Brand"

\* the result of 0 / 0 and of Math.round(NaN)
NaN == 0 - 1

\* an absent brandPosition (undefined); like 0 it is falsy in `if (response.brandPosition)`
NoPosition == 0

\* an absent ranking sentiment (undefined)
NoSentiment == "none"

Sentiments == {"positive", "neutral", "negative"}

\* Math.round(n / d) for n >= 0, d > 0: nearest integer, ties upwards
RoundDiv(n, d) == (2 * n + d) \div (2 * d)

RECURSIVE SumSeq(_)
\* positions.reduce((a, b) => a + b, 0)
SumSeq(s) == IF s = <<>> THEN 0 ELSE Head(s) + SumSeq(Tail(s))

Range(s) == {s[i] : i \in 1..Len(s)}

\* the permutations of 1..n
Shuffles(n) ==
    {f \in [1..n -> 1..n] : \A i, j \in 1..n : i # j => f[i] # f[j]}

\* a list taken in the order f
Permuted(list, f) == [i \in 1..Len(list) |-> list[f[i]]]

RECURSIVE Dedup(_, _)
\* new Set([...]) keeps the first occurrence of each name, in insertion order
Dedup(s, seen) ==
    IF s = <<>> THEN <<>>
    ELSE IF Head(s) \in seen THEN Dedup(Tail(s), seen)
         ELSE <<Head(s)>> \o Dedup(Tail(s), seen \cup {Head(s)})

\* the tracked names kept as a plain list, repeats included
trackedCompaniesKeepingRepeats(known) == <<Brand>> \o known

\* new Set([company.name, ...knownCompetitors])
trackedCompanies(known) == Dedup(<<Brand>> \o known, {})

\* the counter bucket every tracked company starts with
emptyData == [mentions |-> 0, positions |-> <<>>, sentiments |-> <<>>]

\* competitorMap after initialisation
initialCompetitorMap(known) == [c \in Range(trackedCompanies(known)) |-> emptyData]

-----------------------------------------------------------------------------
(* Sentiment helpers *)

sentimentValue(s) == IF s = "positive" THEN 100 ELSE IF s = "neutral" THEN 50 ELSE 0

RECURSIVE sentimentSum(_)
sentimentSum(s) == IF s = <<>> THEN 0 ELSE sentimentValue(Head(s)) + sentimentSum(Tail(s))

\* calculateSentimentScore: an integer percentage, kept in tenths
calculateSentimentScore(sentiments) ==
    IF Len(sentiments) = 0 THEN 500
    ELSE 10 * RoundDiv(sentimentSum(sentiments), Len(sentiments))

countOf(sentiments, v) == Cardinality({i \in 1..Len(sentiments) : sentiments[i] = v})

\* determineSentiment with ties for first place won by positive, then negative
determineSentimentLenient(sentiments) ==
    IF Len(sentiments) = 0 THEN "neutral"
    ELSE LET pos == countOf(sentiments, "positive")
             neu == countOf(sentiments, "neutral")
             neg == countOf(sentiments, "negative")
         IN IF pos >= neg /\ pos >= neu THEN "positive"
            ELSE IF neg >= pos /\ neg >= neu THEN "negative"
            ELSE "neutral"

\* determineSentiment: strict plurality, neutral otherwise
determineSentiment(sentiments) ==
    IF Len(sentiments) = 0 THEN "neutral"
    ELSE LET pos == countOf(sentiments, "positive")
             neu == countOf(sentiments, "neutral")
             neg == countOf(sentiments, "negative")
         IN IF pos > neg /\ pos > neu THEN "positive"
            ELSE IF neg > pos /\ neg > neu THEN "negative"
            ELSE "neutral"

-----------------------------------------------------------------------------
(* analyzeCompetitors: the global scope *)

RECURSIVE foldRankings(_, _, _)
\* response.rankings.forEach of analyzeCompetitors; acc.mentioned is mentionedInResponse
foldRankings(acc, rankings, tracked) ==
    IF rankings = <<>> THEN acc
    ELSE LET ranking == Head(rankings)
             name == ranking.company
         IN IF name \in tracked
            THEN LET data == acc.map[name]
                     next == [mentions |-> IF name \notin acc.mentioned
                                           THEN data.mentions + 1 ELSE data.mentions,
                              positions |-> Append(data.positions, ranking.position),
                              sentiments |-> IF ranking.sentiment # NoSentiment
                                             THEN Append(data.sentiments, ranking.sentiment)
                                             ELSE data.sentiments]
                 IN foldRankings([map |-> [acc.map EXCEPT ![name] = next],
                                  mentioned |-> acc.mentioned \cup {name}],
                                 Tail(rankings), tracked)
            ELSE foldRankings(acc, Tail(rankings), tracked)

\* the brand's bucket after a response counted through brandMentioned
addBrandMention(data, response) ==
    [mentions |-> data.mentions + 1,
     positions |-> IF response.brandPosition # NoPosition
                   THEN Append(data.positions, response.brandPosition)
                   ELSE data.positions,
     sentiments |-> Append(data.sentiments, response.sentiment)]

\* processResponse counting brandMentioned even when the rankings hold the brand
processResponseAlwaysCounts(map, response) ==
    LET tracked == DOMAIN map
        acc == foldRankings([map |-> map, mentioned |-> {}], response.rankings, tracked)
    IN IF response.brandMentioned /\ Brand \in tracked
       THEN [acc.map EXCEPT ![Brand] = addBrandMention(@, response)]
       ELSE acc.map

\* one iteration of responses.forEach in analyzeCompetitors
processResponse(map, response) ==
    LET tracked == DOMAIN map
        acc == foldRankings([map |-> map, mentioned |-> {}], response.rankings, tracked)
    IN IF response.brandMentioned /\ Brand \in tracked /\ Brand \notin acc.mentioned
       THEN [acc.map EXCEPT ![Brand] = addBrandMention(@, response)]
       ELSE acc.map

RECURSIVE foldResponses(_, _)
\* responses.forEach of analyzeCompetitors
foldResponses(map, responses) ==
    IF responses = <<>> THEN map
    ELSE foldResponses(processResponse(map, Head(responses)), Tail(responses))

\* averagePositionOf reporting the latest position instead of the mean
averagePositionLatest(data) ==
    IF Len(data.positions) > 0
    THEN 10 * data.positions[Len(data.positions)]
    ELSE 990

\* averagePositionOf without the 99 sentinel: an empty sample list reports 0
averagePositionNoSentinel(data) ==
    IF Len(data.positions) > 0
    THEN RoundDiv(10 * SumSeq(data.positions), Len(data.positions))
    ELSE 0

\* avgPosition rounded: Math.round(avgPosition * 10) / 10, 99 when no position was recorded
averagePositionOf(data) ==
    IF Len(data.positions) > 0
    THEN RoundDiv(10 * SumSeq(data.positions), Len(data.positions))
    ELSE 990

\* Math.round(((data.mentions / totalResponses) * 100) * 10) / 10 of analyzeCompetitors;
\* with no response no mention was counted and the quotient is 0 / 0
globalVisibility(mentions, totalResponses) ==
    IF totalResponses = 0 THEN NaN
    ELSE RoundDiv(1000 * mentions, totalResponses)

\* the entry pushed for one company by competitorMap.forEach
globalEntry(name, data, totalResponses) ==
    [name |-> name,
     mentions |-> data.mentions,
     averagePosition |-> averagePositionOf(data),
     sentiment |-> determineSentiment(data.sentiments),
     sentimentScore |-> calculateSentimentScore(data.sentiments),
     shareOfVoice |-> 0,
     visibilityScore |-> globalVisibility(data.mentions, totalResponses),
     isOwn |-> (name = Brand)]

RECURSIVE totalMentionsOf(_)
\* competitors.reduce((sum, c) => sum + c.mentions, 0)
totalMentionsOf(competitors) ==
    IF competitors = <<>> THEN 0
    ELSE Head(competitors).mentions + totalMentionsOf(Tail(competitors))

\* withShareOfVoice truncating each share (Math.floor) instead of rounding it
withShareOfVoiceTruncated(competitors) ==
    LET totalMentions == totalMentionsOf(competitors)
    IN [i \in 1..Len(competitors) |->
          [competitors[i] EXCEPT !.shareOfVoice =
              IF totalMentions > 0
              THEN (1000 * competitors[i].mentions) \div totalMentions
              ELSE 0]]

\* c.shareOfVoice = totalMentions > 0 ? Math.round((c.mentions / totalMentions) * 1000) / 10 : 0
withShareOfVoice(competitors) ==
    LET totalMentions == totalMentionsOf(competitors)
    IN [i \in 1..Len(competitors) |->
          [competitors[i] EXCEPT !.shareOfVoice =
              IF totalMentions > 0
              THEN RoundDiv(1000 * competitors[i].mentions, totalMentions)
              ELSE 0]]

\* the comparator (a, b) => b.visibilityScore - a.visibilityScore is positive:
\* b must come before a.  A NaN difference is not positive.
comesBefore(b, a) ==
    /\ a.visibilityScore # NaN
    /\ b.visibilityScore # NaN
    /\ b.visibilityScore > a.visibilityScore

RECURSIVE insertSorted(_, _)
insertSorted(sorted, c) ==
    IF sorted = <<>> THEN <<c>>
    ELSE IF comesBefore(c, Head(sorted)) THEN <<c>> \o sorted
         ELSE <<Head(sorted)>> \o insertSorted(Tail(sorted), c)

RECURSIVE sortFrom(_, _)
sortFrom(sorted, rest) ==
    IF rest = <<>> THEN sorted
    ELSE sortFrom(insertSorted(sorted, Head(rest)), Tail(rest))

\* competitors.sort((a, b) => b.visibilityScore - a.visibilityScore): Array.prototype.sort
\* is stable, entries of equal score keep their insertion order
sortByVisibility(competitors) == sortFrom(<<>>, competitors)

\* analyzeCompetitors(company, responses, knownCompetitors)
analyzeCompetitors(responses, known) ==
    LET tracked == trackedCompanies(known)
        map == foldResponses(initialCompetitorMap(known), responses)
        totalResponses == Len(responses)
        entries == [i \in 1..Len(tracked) |->
                       globalEntry(tracked[i], map[tracked[i]], totalResponses)]
    IN sortByVisibility(withShareOfVoice(entries))

-----------------------------------------------------------------------------
(* calculateBrandScores *)

zeroScores ==
    [visibilityScore |-> 0, sentimentScore |-> 0, shareOfVoice |-> 0,
     overallScore |-> 0, averagePosition |-> 0]

\* positionScore without the Math.max(0, ...) of its second branch
positionScoreUnclamped(averagePosition) ==
    IF averagePosition <= 100
    THEN 10 * (110 - averagePosition)
    ELSE 1000 - 2 * averagePosition

\* positionScore in tenths, from averagePosition in tenths:
\* averagePosition <= 10 ? (11 - averagePosition) * 10 : Math.max(0, 100 - averagePosition * 2)
positionScore(averagePosition) ==
    IF averagePosition <= 100
    THEN 10 * (110 - averagePosition)
    ELSE IF 1000 - 2 * averagePosition > 0 THEN 1000 - 2 * averagePosition ELSE 0

\* overallScore with the four inputs weighted equally
overallScoreOfEqualWeights(brandRanking) ==
    RoundDiv(25 * (brandRanking.visibilityScore
                   + brandRanking.sentimentScore
                   + brandRanking.shareOfVoice
                   + positionScore(brandRanking.averagePosition)), 100)

\* overallScore in tenths: the weights 0.3, 0.2, 0.3, 0.2 applied to values in tenths
\* give hundredths-of-ten; Math.round(overallScore * 10) / 10 rounds them to tenths
overallScoreOf(brandRanking) ==
    RoundDiv(3 * brandRanking.visibilityScore
             + 2 * brandRanking.sentimentScore
             + 3 * brandRanking.shareOfVoice
             + 2 * positionScore(brandRanking.averagePosition), 10)

\* competitors.find(c => c.isOwn): index of the first own entry, 0 when there is none
findOwn(competitors) ==
    IF \E i \in 1..Len(competitors) : competitors[i].isOwn
    THEN CHOOSE i \in 1..Len(competitors) :
            /\ competitors[i].isOwn
            /\ \A j \in 1..(i - 1) : ~competitors[j].isOwn
    ELSE 0

\* calculateBrandScores without the early return for an empty response list
calculateBrandScoresUnguarded(responses, competitors) ==
    IF findOwn(competitors) = 0 THEN zeroScores
    ELSE LET brandRanking == competitors[findOwn(competitors)]
         IN [visibilityScore |-> brandRanking.visibilityScore,
             sentimentScore |-> brandRanking.sentimentScore,
             shareOfVoice |-> brandRanking.shareOfVoice,
             overallScore |-> overallScoreOf(brandRanking),
             averagePosition |-> brandRanking.averagePosition]

\* calculateBrandScores(responses, brandName, competitors)
calculateBrandScores(responses, competitors) ==
    IF Len(responses) = 0 THEN zeroScores
    ELSE IF findOwn(competitors) = 0 THEN zeroScores
    ELSE LET brandRanking == competitors[findOwn(competitors)]
         IN [visibilityScore |-> brandRanking.visibilityScore,
             sentimentScore |-> brandRanking.sentimentScore,
             shareOfVoice |-> brandRanking.shareOfVoice,
             overallScore |-> overallScoreOf(brandRanking),
             averagePosition |-> brandRanking.averagePosition]

-----------------------------------------------------------------------------
(* analyzeCompetitorsByProvider: one scope per provider *)

\* providers.push('OpenAI', 'Anthropic', 'Google') when none is configured
defaultProviders == <<"OpenAI", "Anthropic", "Google">>

\* configuredProviders.map(p => p.name), or the default list
providersOf(configured) == IF Len(configured) = 0 THEN defaultProviders ELSE configured

RECURSIVE foldProviderRankings(_, _, _)
\* response.rankings.forEach of analyzeCompetitorsByProvider
foldProviderRankings(map, rankings, tracked) ==
    IF rankings = <<>> THEN map
    ELSE LET ranking == Head(rankings)
             name == ranking.company
         IN IF name \in tracked
            THEN LET data == map[name]
                     next == [mentions |-> data.mentions + 1,
                              positions |-> Append(data.positions, ranking.position),
                              sentiments |-> IF ranking.sentiment # NoSentiment
                                             THEN Append(data.sentiments, ranking.sentiment)
                                             ELSE data.sentiments]
                 IN foldProviderRankings([map EXCEPT ![name] = next], Tail(rankings), tracked)
            ELSE foldProviderRankings(map, Tail(rankings), tracked)

\* response.rankings?.some(r => r.company === company.name)
brandInRankings(response) ==
    \E i \in 1..Len(response.rankings) : response.rankings[i].company = Brand

\* one iteration of responses.forEach in analyzeCompetitorsByProvider;
\* a response whose provider has no bucket is skipped
processProviderResponse(providerData, response) ==
    IF response.provider \notin DOMAIN providerData THEN providerData
    ELSE LET providerMap == providerData[response.provider]
             tracked == DOMAIN providerMap
             ranked == foldProviderRankings(providerMap, response.rankings, tracked)
             counted == IF /\ response.brandMentioned
                           /\ Brand \in tracked
                           /\ ~brandInRankings(response)
                        THEN [ranked EXCEPT ![Brand] = addBrandMention(@, response)]
                        ELSE ranked
         IN [providerData EXCEPT ![response.provider] = counted]

RECURSIVE foldProviderResponses(_, _)
foldProviderResponses(providerData, responses) ==
    IF responses = <<>> THEN providerData
    ELSE foldProviderResponses(processProviderResponse(providerData, Head(responses)),
                               Tail(responses))

\* providerResponseCount taking the denominator from all providers' responses
providerResponseCountPooled(responses, provider) == Len(responses)

\* responses.filter(r => r.provider === provider).length
providerResponseCount(responses, provider) ==
    Cardinality({i \in 1..Len(responses) : responses[i].provider = provider})

\* totalResponses > 0 ? (data.mentions / totalResponses) * 100 : 0, rounded to one decimal
providerVisibility(mentions, totalResponses) ==
    IF totalResponses > 0 THEN RoundDiv(1000 * mentions, totalResponses) ELSE 0

providerEntry(name, data, totalResponses) ==
    [name |-> name,
     mentions |-> data.mentions,
     averagePosition |-> averagePositionOf(data),
     sentiment |-> determineSentiment(data.sentiments),
     sentimentScore |-> calculateSentimentScore(data.sentiments),
     shareOfVoice |-> 0,
     visibilityScore |-> providerVisibility(data.mentions, totalResponses),
     isOwn |-> (name = Brand)]

\* the providerRankings of analyzeCompetitorsByProvider(company, responses, knownCompetitors)
analyzeCompetitorsByProvider(responses, known, configured) ==
    LET tracked == trackedCompanies(known)
        providers == providersOf(configured)
        providerData == foldProviderResponses(
                            [p \in Range(providers) |-> initialCompetitorMap(known)],
                            responses)
        rankingOf(provider) ==
            LET competitorMap == providerData[provider]
                totalResponses == providerResponseCount(responses, provider)
                entries == [i \in 1..Len(tracked) |->
                               providerEntry(tracked[i], competitorMap[tracked[i]],
                                             totalResponses)]
            IN sortByVisibility(withShareOfVoice(entries))
    IN [i \in 1..Len(providers) |->
          [provider |-> providers[i], competitors |-> rankingOf(providers[i])]]

-----------------------------------------------------------------------------
(* analyzePromptWithProvider: the response interpreter *)

\* providerDisplayName: the four provider ids map to their display names,
\* any other argument is kept as it is
providerDisplayName(provider) ==
    IF provider = "openai" THEN "OpenAI"
    ELSE IF provider = "anthropic" THEN "Anthropic"
    ELSE IF provider = "google" THEN "Google"
    ELSE IF provider = "perplexity" THEN "Perplexity"
    ELSE provider

\* String.prototype.toLowerCase on one character
toLowerCase(ch) ==
    IF ch = "Y" THEN "y" ELSE IF ch = "E" THEN "e" ELSE IF ch = "S" THEN "s"
    ELSE IF ch = "N" THEN "n" ELSE IF ch = "O" THEN "o" ELSE ch

RECURSIVE splitLines(_, _)
\* text.split('\n'): the lines of a character sequence; current is the open line
splitLines(text, current) ==
    IF text = <<>> THEN <<current>>
    ELSE IF Head(text) = "\n" THEN <<current>> \o splitLines(Tail(text), <<>>)
         ELSE splitLines(Tail(text), Append(current, Head(text)))

\* line.includes('yes')
includesYes(line) ==
    \E i \in 1..(Len(line) - 2) :
        line[i] = "y" /\ line[i + 1] = "e" /\ line[i + 2] = "s"

\* simpleResponse.toLowerCase().split('\n').some(line => line.includes('yes'))
aiSaysBrandMentioned(simpleResponse) ==
    LET lines == splitLines([i \in 1..Len(simpleResponse) |-> toLowerCase(simpleResponse[i])],
                            <<>>)
    IN \E i \in 1..Len(lines) : includesYes(lines[i])

\* competitors.filter(c => competitorDetections.get(c)?.mentioned || false)
detectedCompetitors(known, found) ==
    LET Test(c) == c \in found IN SelectSeq(known, Test)

\* Array.from(allMentionedCompetitors).filter(c => competitors.includes(c) && c !== brandName):
\* the competitors of the structured analysis first, then the detected ones, each once
relevantCompetitors(known, aiCompetitors, found) ==
    LET Detected(c) == c \in found /\ c # Brand
        Relevant(c) == c \in Range(known) /\ c # Brand
    IN SelectSeq(Dedup(aiCompetitors \o SelectSeq(known, Detected), {}), Relevant)

\* structuredResult trusting the structured analysis alone for brandMentioned
structuredResultModelOnly(provider, object, brandDetection, known, found) ==
    [provider |-> providerDisplayName(provider),
     rankings |-> object.rankings,
     competitors |-> relevantCompetitors(known, object.analysis.competitors, found),
     brandMentioned |-> object.analysis.brandMentioned,
     brandPosition |-> object.analysis.brandPosition,
     sentiment |-> object.analysis.overallSentiment,
     confidence |-> object.analysis.confidence]

\* the AIResponse returned after a successful structured extraction
structuredResult(provider, object, brandDetection, known, found) ==
    [provider |-> providerDisplayName(provider),
     rankings |-> object.rankings,
     competitors |-> relevantCompetitors(known, object.analysis.competitors, found),
     brandMentioned |-> (object.analysis.brandMentioned \/ brandDetection.mentioned),
     brandPosition |-> object.analysis.brandPosition,
     sentiment |-> object.analysis.overallSentiment,
     confidence |-> object.analysis.confidence]

\* the AIResponse returned from the simplified text answer
simplifiedResult(provider, simpleResponse, brandDetection, known, found) ==
    [provider |-> provider,
     rankings |-> <<>>,
     competitors |-> detectedCompetitors(known, found),
     brandMentioned |-> (aiSaysBrandMentioned(simpleResponse) \/ brandDetection.mentioned),
     brandPosition |-> NoPosition,
     sentiment |-> "neutral",
     confidence |-> 70]

\* the final fallback without the * 0.5 on the confidence
heuristicResultFullConfidence(provider, brandDetection, known, found) ==
    [provider |-> provider,
     rankings |-> <<>>,
     competitors |-> detectedCompetitors(known, found),
     brandMentioned |-> brandDetection.mentioned,
     brandPosition |-> NoPosition,
     sentiment |-> "neutral",
     confidence |-> brandDetection.confidence]

\* the AIResponse of the final fallback; confidence is brandDetection.confidence * 0.5
heuristicResult(provider, brandDetection, known, found) ==
    [provider |-> provider,
     rankings |-> <<>>,
     competitors |-> detectedCompetitors(known, found),
     brandMentioned |-> brandDetection.mentioned,
     brandPosition |-> NoPosition,
     sentiment |-> "neutral",
     confidence |-> brandDetection.confidence \div 2]

\* rankings.find(r => r.company === brandName): index of the brand's entry, 0 if none
findBrand(rankings) ==
    IF \E i \in 1..Len(rankings) : rankings[i].company = Brand
    THEN CHOOSE i \in 1..Len(rankings) :
            /\ rankings[i].company = Brand
            /\ \A j \in 1..(i - 1) : rankings[j].company # Brand
    ELSE 0

\* generateMockResponse: shuffled is the shuffled company list, sentimentOf the
\* random sentiment of each entry, coin the draw that mentions an unranked brand,
\* drawn the random position 3..10, found the randomly kept competitors, conf the
\* random confidence
generateMockResponse(provider, known, shuffled, sentimentOf, coin, drawn, found, conf) ==
    LET top == SubSeq(shuffled, 1, IF Len(shuffled) < 5 THEN Len(shuffled) ELSE 5)
        rankings == [i \in 1..Len(top) |-> [position |-> i, company |-> top[i],
                                            sentiment |-> sentimentOf[i]]]
        brandRanking == findBrand(rankings)
        brandMentioned == brandRanking # 0 \/ coin
    IN [provider |-> providerDisplayName(provider),
        rankings |-> rankings,
        competitors |-> detectedCompetitors(known, found),
        brandMentioned |-> brandMentioned,
        brandPosition |-> IF brandRanking # 0 THEN rankings[brandRanking].position
                          ELSE IF brandMentioned THEN drawn ELSE NoPosition,
        sentiment |-> IF brandRanking # 0 THEN rankings[brandRanking].sentiment
                      ELSE "neutral",
        confidence |-> conf]

-----------------------------------------------------------------------------
(* analyzeCompanyAndCompetitors: the units of the analysis loop *)

\* analyzePromptWithProvider returned null: the provider has no model
NullResult == "null"

\* analyzePromptWithProvider threw
Thrown == "thrown"

\* prompts.length * configuredProviders.length * (1 + competitors.length)
totalAnalyses(ps, providers, cs) == Len(ps) * Len(providers) * (1 + Len(cs))

\* Math.round((completedAnalyses / totalAnalyses) * 100)
progressOf(completed, total) == RoundDiv(100 * completed, total)

\* the prompt x provider units in the order the loops run them: the company's
\* (for prompt, for provider), then each competitor's in turn
unitsOf(ps, providers, cs) ==
    LET targets == <<Brand>> \o cs
        perTarget == Len(ps) * Len(providers)
        unitAt(k) ==
            LET t == (k - 1) \div perTarget
                r == (k - 1) % perTarget
            IN [target |-> targets[t + 1],
                isCompany |-> (t = 0),
                prompt |-> ps[(r \div Len(providers)) + 1],
                provider |-> providers[(r % Len(providers)) + 1]]
    IN [k \in 1..(perTarget * Len(targets)) |-> unitAt(k)]

\* the entry pushed for a unit: the prompt as sent for the target, the provider
\* id, the result and the target
entryFor(u, result) ==
    [prompt |-> <<u.prompt, u.target>>, provider |-> u.provider,
     result |-> result, target |-> u.target]

\* companyResults.push(...) of the company loop
pushCompany(results, u, result) ==
    IF u.isCompany THEN Append(results, entryFor(u, result)) ELSE results

\* competitorResults.get(competitor.name).push(...) of the competitor loop
pushCompetitor(results, u, result) ==
    IF u.isCompany THEN results
    ELSE [results EXCEPT ![u.target] = Append(@, entryFor(u, result))]

-----------------------------------------------------------------------------
(* Inputs of the aggregation *)

Entry(position, company, sentiment) ==
    [position |-> position, company |-> company, sentiment |-> sentiment]

\* the competitor lists a run is started with: one that repeats a competitor and
\* holds the brand's own name, and one with five distinct competitors
CompetitorLists ==
    { <<"Acme", Brand, "Acme">>,
      <<"Acme", "Globex", "Initech", "Umbrella", "Hooli">> }

\* the names getConfiguredProviders() returns: two configured providers, or none
ProviderConfigs == { <<"OpenAI", "Anthropic">>, <<>> }

\* rankings of a response: none, the brand alone, one competitor listed twice,
\* and six companies listed once each
RankingLists ==
    { <<>>,
      <<Entry(1, Brand, "positive")>>,
      <<Entry(1, "Acme", "negative"), Entry(4, "Acme", NoSentiment)>>,
      <<Entry(1, "Acme", "positive"), Entry(2, Brand, "neutral"),
        Entry(3, "Globex", NoSentiment), Entry(4, "Initech", "negative"),
        Entry(5, "Umbrella", NoSentiment), Entry(6, "Hooli", "positive")>> }

\* brandMentioned, brandPosition and sentiment of a response
BrandFields ==
    { [brandMentioned |-> FALSE, brandPosition |-> NoPosition, sentiment |-> "neutral"],
      [brandMentioned |-> TRUE, brandPosition |-> NoPosition, sentiment |-> "positive"],
      [brandMentioned |-> TRUE, brandPosition |-> 3, sentiment |-> "negative"] }

ResponseProviders == {"OpenAI", "Anthropic"}

\* the AIResponse values the aggregation is fed
Responses ==
    { [provider |-> p, rankings |-> r, brandMentioned |-> b.brandMentioned,
       brandPosition |-> b.brandPosition, sentiment |-> b.sentiment] :
        p \in ResponseProviders, r \in RankingLists, b \in BrandFields }

\* the provider labels a response can carry: the display name of a configured
\* provider, a provider id, and the display name of a provider not configured
ResponseLabels == {"OpenAI", "openai", "Perplexity"}

\* responses that differ in their label, with and without a ranked competitor
LabelledResponses ==
    { [provider |-> p, rankings |-> r, brandMentioned |-> FALSE,
       brandPosition |-> NoPosition, sentiment |-> "neutral"] :
        p \in ResponseLabels, r \in {<<>>, <<Entry(1, "Acme", "positive")>>} }

-----------------------------------------------------------------------------
(* Inputs of the interpreter *)

\* the provider argument: an id (as the orchestrator passes provider.id),
\* a display name, or the mock provider
ProviderArgs ==
    {"openai", "anthropic", "google", "perplexity",
     "OpenAI", "Anthropic", "Google", "Perplexity", "Mock"}

\* what detectBrandMention can report: not mentioned, or mentioned with a
\* confidence (in hundredths)
Detections ==
    { [called |-> TRUE, mentioned |-> FALSE, confidence |-> 0],
      [called |-> TRUE, mentioned |-> TRUE, confidence |-> 80],
      [called |-> TRUE, mentioned |-> TRUE, confidence |-> 100] }

\* objects generateObject can return under RankingSchema
Objects ==
    { [rankings |-> r,
       analysis |-> [brandMentioned |-> m, brandPosition |-> bp, competitors |-> cs,
                     overallSentiment |-> os, confidence |-> cf]] :
        r \in { <<>>,
                <<Entry(1, Brand, "positive")>>,
                <<Entry(1, "Acme", NoSentiment), Entry(2, "Initech", "neutral")>> },
        m \in BOOLEAN,
        bp \in {NoPosition, 2},
        cs \in { <<>>, <<"Acme">>, <<"Initech", Brand, "Globex">> },
        os \in {"positive", "negative"},
        cf \in {30, 90} }

\* answers to the simplified follow-up question, as characters
SimpleResponses ==
    { <<"Y", "e", "s">>,
      <<"n", "o">>,
      <<"y", "e", "\n", "s">>,
      <<"n", "o", "\n", "Y", "E", "S">>,
      <<"e", "y", "e", "s">> }

\* the competitors argument of the interpreted call
InterpCompetitors == <<"Acme", "Globex">>

-----------------------------------------------------------------------------
(* Inputs of analyzeCompanyAndCompetitors *)

\* the prompt lists of a run
PromptLists == { <<"p1">>, <<"p1", "p2">> }

\* the provider ids getConfiguredProviders() can give a run
RunProviderLists == { <<>>, <<"openai">>, <<"openai", "anthropic">> }

\* the competitor names of a run
RunCompetitorLists == { <<>>, <<"Acme">>, <<"Acme", "Globex">> }

\* the runs started: every combination of up to MaxUnits prompt x provider units
OrchRuns ==
    { run \in [prompts : PromptLists, providers : RunProviderLists,
               competitors : RunCompetitorLists] :
        totalAnalyses(run.prompts, run.providers, run.competitors) <= MaxUnits }

\* what an await of analyzePromptWithProvider can resolve with
UnitResults == {"AIResponse", NullResult}

-----------------------------------------------------------------------------
(* Inputs of the entry points *)

\* company.scrapedData?.competitors is undefined; also: nothing was returned
NoList == "undefined"

\* the functions that start work
EntryPoints == {"identifyCompetitors", "runEnhancedBrandAnalysis", "generatePromptsForCompany"}

\* the provider ids getConfiguredProviders() can give an entry point
StartProviderLists == { <<>>, <<"openai">>, <<"openai", "anthropic">> }

\* company.scrapedData?.competitors
ScrapedLists == { NoList, <<>>, <<"Globex">> }

\* the competitor names left of the generated object after the filter and slice
FoundLists == { <<>>, <<"Acme">>, <<"Acme", "Globex">> }

\* company.scrapedData?.competitors || []
scrapedOrEmpty(scraped) == IF scraped = NoList THEN <<>> ELSE scraped

RECURSIVE addScraped(_, _)
\* scrapedData.competitors.forEach(comp => { if (!competitors.includes(comp)) competitors.push(comp) })
addScraped(found, scraped) ==
    IF scraped = <<>> THEN found
    ELSE addScraped(IF Head(scraped) \in Range(found) THEN found
                    ELSE Append(found, Head(scraped)),
                    Tail(scraped))

\* one 'competitor-found' event per competitor
competitorFoundEvents(found) ==
    [i \in 1..Len(found) |-> [type |-> "competitor-found", progress |-> 0]]

\* a 'progress' event with its percentage
progressEvent(percent) == [type |-> "progress", progress |-> percent]

\* the 'progress' events of the provider loop of discoverCompetitorsEnhanced
\* up to the i-th of the first three providers: 30 + i * 20 each
discoveryEvents(n) == [i \in 1..n |-> progressEvent(30 + (i - 1) * 20)]

\* Math.min(3, configuredProviders.length)
providersToUse(providers) == IF Len(providers) < 3 THEN Len(providers) ELSE 3

\* no position score has been computed yet
NoScore == "unscored"

\* the average positions a tracked company can have, in tenths: 1.0 up to the
\* sentinel 99.0
Positions == 10..990

\* the sentiment sample lists of one company, up to MaxSamples samples
SampleLists == UNION { [1..n -> Sentiments] : n \in 0..MaxSamples }

\* no text has been received from the provider yet
NoText == "<no text>"

\* a non-empty answer of the provider
RawText == "raw answer"

noObject ==
    [rankings |-> <<>>,
     analysis |-> [brandMentioned |-> FALSE, brandPosition |-> NoPosition,
                   competitors |-> <<>>, overallSentiment |-> "neutral", confidence |-> 0]]

noDetection == [called |-> FALSE, mentioned |-> FALSE, confidence |-> 0]

noResult ==
    [provider |-> "", rankings |-> <<>>, competitors |-> <<>>, brandMentioned |-> FALSE,
     brandPosition |-> NoPosition, sentiment |-> "neutral", confidence |-> 0]

-----------------------------------------------------------------------------
(* State *)

VARIABLES
    knownCompetitors,     \* the competitor names of the run
    configuredProviders,  \* names returned by getConfiguredProviders()
    responses,            \* the AIResponse list collected so far
    phase,                \* "collecting" | "done"
    competitors,          \* result of analyzeCompetitors
    providerRankings,     \* providerRankings of analyzeCompetitorsByProvider
    brandScores,          \* result of calculateBrandScores
    provider,             \* the provider argument of analyzePromptWithProvider
    ipc,                  \* where the call stands: "idle" | "text" | "structured" |
                          \* "simple" | "returned" | "skipped" | "thrown"
    calls,                \* the model calls issued so far, in order
    object,               \* result.object of generateObject
    simpleResponse,       \* text of the simplified follow-up answer
    brandDetection,       \* detectBrandMention(text, brandName, ...) as used for the result
    stage,                \* the path that produced the result
    result,               \* the AIResponse returned
    text,                 \* the text generateText returned to the first call
    failures,             \* the model calls that threw
    competitorDetections, \* the competitors the detector reports in the text
    fpc,                  \* where the application of a scoring function stands
    scoredPosition,       \* the averagePosition handed to the position score, in tenths
    scoredValue,          \* the position score computed from it, in tenths
    samples,              \* the sentiment samples recorded for one company
    verdict,              \* the sentiment determineSentiment gives for them
    prompts,              \* the prompts analyzeCompanyAndCompetitors is given
    runProviders,         \* the ids getConfiguredProviders() gives the run
    runCompetitors,       \* the names of the competitors the run is given
    opc,                  \* where analyzeCompanyAndCompetitors stands
    unit,                 \* the number of the prompt x provider unit in turn
    companyResults,       \* the entries pushed for the company
    competitorResults,    \* the entries pushed for each competitor
    completedAnalyses,    \* the counter behind the progress percentage
    progressEvents,       \* the progress values handed to progressCallback
    outcomes,             \* how each unit attempted so far ended
    entryPoint,           \* the entry point that was called
    startProviders,       \* the ids getConfiguredProviders() gives the entry point
    modelsAvailable,      \* whether getProviderModel gives a model for them
    scrapedCompetitors,   \* company.scrapedData?.competitors
    epc,                  \* where the entry point stands
    modelCalls,           \* the model calls issued so far
    startEvents,          \* the events handed to progressCallback so far
    startValue,           \* what the entry point returned
    routeVersion,         \* which of the two POST handlers of route.ts runs
    rpc,                  \* where the streaming task stands
    written,              \* the types of the events written to the stream, in order
    writerState,          \* the state of the stream behind the writer
    closeCalls,           \* how many times writer.close() was called
    writtenAtClose,       \* how many events were written when writer.close() was called
    analysisOutcome       \* how performAnalysis settled

aggVars == <<knownCompetitors, configuredProviders, responses, phase,
             competitors, providerRankings, brandScores>>

interpVars == <<provider, ipc, calls, object, simpleResponse, brandDetection,
                stage, result, text, failures, competitorDetections>>

funVars == <<fpc, scoredPosition, scoredValue, samples, verdict>>

orchVars == <<prompts, runProviders, runCompetitors, opc, unit, companyResults,
              competitorResults, completedAnalyses, progressEvents, outcomes>>

startVars == <<entryPoint, startProviders, modelsAvailable, scrapedCompetitors, epc,
               modelCalls, startEvents, startValue>>

routeVars == <<routeVersion, rpc, written, writerState, closeCalls, writtenAtClose, analysisOutcome>>

vars == <<aggVars, interpVars, funVars, orchVars, startVars, routeVars>>

\* what an aggregation step leaves alone
nonAggVars == <<interpVars, funVars, orchVars, startVars, routeVars>>

\* what an interpreter step leaves alone
nonInterpVars == <<aggVars, funVars, orchVars, startVars, routeVars>>

\* what the application of a scoring function leaves alone
nonFunVars == <<aggVars, interpVars, orchVars, startVars, routeVars>>

\* what a step of analyzeCompanyAndCompetitors leaves alone
nonOrchVars == <<aggVars, interpVars, funVars, startVars, routeVars>>

\* what the start of an entry point leaves alone
nonStartVars == <<aggVars, interpVars, funVars, orchVars, routeVars>>

\* what the streaming task of the analyze route leaves alone
nonRouteVars == <<aggVars, interpVars, funVars, orchVars, startVars>>

AggInit ==
    /\ knownCompetitors \in CompetitorLists
    /\ configuredProviders \in ProviderConfigs
    /\ responses = <<>>
    /\ phase = "collecting"
    /\ competitors = <<>>
    /\ providerRankings = <<>>
    /\ brandScores = zeroScores

\* no interpreter call is in progress
InterpIdle ==
    /\ provider = ""
    /\ ipc = "idle"
    /\ calls = <<>>
    /\ object = noObject
    /\ simpleResponse = <<>>
    /\ brandDetection = noDetection
    /\ stage = "none"
    /\ result = noResult
    /\ text = NoText
    /\ failures = {}
    /\ competitorDetections = {}

\* no aggregation is under way
AggIdle ==
    /\ knownCompetitors = InterpCompetitors
    /\ configuredProviders = <<"OpenAI", "Anthropic">>
    /\ responses = <<>>
    /\ phase = "collecting"
    /\ competitors = <<>>
    /\ providerRankings = <<>>
    /\ brandScores = zeroScores

\* no scoring function is being applied
FunIdle ==
    /\ fpc = "idle"
    /\ scoredPosition = NoPosition
    /\ scoredValue = NoScore
    /\ samples = <<>>
    /\ verdict = NoSentiment

\* analyzeCompanyAndCompetitors has not been called
OrchIdle ==
    /\ prompts = <<>>
    /\ runProviders = <<>>
    /\ runCompetitors = <<>>
    /\ opc = "idle"
    /\ unit = 1
    /\ companyResults = <<>>
    /\ competitorResults = <<>>
    /\ completedAnalyses = 0
    /\ progressEvents = <<>>
    /\ outcomes = <<>>

\* no entry point has been called
StartIdle ==
    /\ entryPoint = "none"
    /\ startProviders = <<>>
    /\ modelsAvailable = FALSE
    /\ scrapedCompetitors = NoList
    /\ epc = "idle"
    /\ modelCalls = 0
    /\ startEvents = <<>>
    /\ startValue = NoList

\* no streaming task has been started
RouteIdle ==
    /\ routeVersion = 1
    /\ rpc = "idle"
    /\ written = <<>>
    /\ writerState = "open"
    /\ closeCalls = 0
    /\ writtenAtClose = 0
    /\ analysisOutcome = "pending"

\* one more prompt x provider unit delivers its AIResponse
Collect(response) ==
    /\ phase = "collecting"
    /\ Len(responses) < MaxResponses
    /\ responses' = Append(responses, response)
    /\ UNCHANGED <<knownCompetitors, configuredProviders, phase,
                   competitors, providerRankings, brandScores>>
    /\ UNCHANGED nonAggVars

\* the aggregation and scoring of the collected list
Aggregate ==
    /\ phase = "collecting"
    /\ phase' = "done"
    /\ competitors' = analyzeCompetitors(responses, knownCompetitors)
    /\ providerRankings' =
          analyzeCompetitorsByProvider(responses, knownCompetitors, configuredProviders)
    /\ brandScores' =
          calculateBrandScores(responses, analyzeCompetitors(responses, knownCompetitors))
    /\ UNCHANGED <<knownCompetitors, configuredProviders, responses>>
    /\ UNCHANGED nonAggVars

AggNext ==
    \/ \E response \in Responses : Collect(response)
    \/ Aggregate

Init == AggInit /\ InterpIdle /\ FunIdle /\ OrchIdle /\ StartIdle /\ RouteIdle

Next == AggNext

\* the aggregation and scoring of one run
Spec == Init /\ [][Next]_vars

LabelledNext ==
    \/ \E response \in LabelledResponses : Collect(response)
    \/ Aggregate

\* the aggregation of responses under any provider label
SpecLabelled == Init /\ [][LabelledNext]_vars

-----------------------------------------------------------------------------
(* The interpreter: one action per await of analyzePromptWithProvider *)

InterpInit ==
    /\ knownCompetitors = InterpCompetitors
    /\ configuredProviders = <<"OpenAI", "Anthropic">>
    /\ responses = <<>>
    /\ phase = "collecting"
    /\ competitors = <<>>
    /\ providerRankings = <<>>
    /\ brandScores = zeroScores
    /\ InterpIdle
    /\ FunIdle
    /\ OrchIdle
    /\ StartIdle
    /\ RouteIdle

\* useMockMode || provider === 'Mock': the mock response is returned at once
InvokeMock ==
    /\ ipc = "idle"
    /\ \E p \in ProviderArgs, useMockMode \in BOOLEAN :
         /\ useMockMode \/ p = "Mock"
         /\ \E shuffle \in Shuffles(1 + Len(knownCompetitors)),
               sentimentOf \in [1..(1 + Len(knownCompetitors)) -> Sentiments],
               coin \in BOOLEAN, drawnPosition \in {3, 10},
               found \in SUBSET Range(knownCompetitors), confidence \in {70, 100} :
              /\ provider' = p
              /\ result' = generateMockResponse(
                               p, knownCompetitors,
                               Permuted(<<Brand>> \o knownCompetitors, shuffle),
                               sentimentOf, coin, drawnPosition, found, confidence)
    /\ stage' = "mock"
    /\ ipc' = "returned"
    /\ UNCHANGED <<calls, object, simpleResponse, brandDetection, text, failures,
                   competitorDetections>>
    /\ UNCHANGED nonInterpVars

\* getProviderModel gives no model: null is returned and no call is made
InvokeUnconfigured ==
    /\ ipc = "idle"
    /\ \E p \in ProviderArgs \ {"Mock"} : provider' = p
    /\ ipc' = "skipped"
    /\ UNCHANGED <<calls, object, simpleResponse, brandDetection, stage, result, text,
                   failures, competitorDetections>>
    /\ UNCHANGED nonInterpVars

\* the provider has a model: the prompt is sent with generateText
Invoke ==
    /\ ipc = "idle"
    /\ \E p \in ProviderArgs \ {"Mock"} : provider' = p
    /\ calls' = Append(calls, "generateText")
    /\ ipc' = "text"
    /\ UNCHANGED <<object, simpleResponse, brandDetection, stage, result, text,
                   failures, competitorDetections>>
    /\ UNCHANGED nonInterpVars

\* generateText fails: the error is logged and rethrown
TextThrows ==
    /\ ipc = "text"
    /\ ipc' = "thrown"
    /\ stage' = "error"
    /\ failures' = failures \cup {"generateText"}
    /\ UNCHANGED <<provider, calls, object, simpleResponse, brandDetection, result, text,
                   competitorDetections>>
    /\ UNCHANGED nonInterpVars

\* an interpreter without the empty-text check: the empty text goes on to the
\* structured extraction
TextEmptyTolerated ==
    /\ ipc = "text"
    /\ calls' = Append(calls, "generateObject")
    /\ ipc' = "structured"
    /\ text' = ""
    /\ UNCHANGED <<provider, object, simpleResponse, brandDetection, stage, result,
                   failures, competitorDetections>>
    /\ UNCHANGED nonInterpVars

\* generateText returns an empty text: an error is thrown and rethrown
TextEmpty ==
    /\ ipc = "text"
    /\ ipc' = "thrown"
    /\ stage' = "empty"
    /\ text' = ""
    /\ UNCHANGED <<provider, calls, object, simpleResponse, brandDetection, result,
                   failures, competitorDetections>>
    /\ UNCHANGED nonInterpVars

\* generateText returns a text: the structured extraction is asked for
TextArrives ==
    /\ ipc = "text"
    /\ calls' = Append(calls, "generateObject")
    /\ ipc' = "structured"
    /\ text' = RawText
    /\ UNCHANGED <<provider, object, simpleResponse, brandDetection, stage, result,
                   failures, competitorDetections>>
    /\ UNCHANGED nonInterpVars

\* generateObject returns an object: it is merged with the detector's verdicts
StructuredSucceeds ==
    /\ ipc = "structured"
    /\ \E obj \in Objects, detection \in Detections,
          found \in SUBSET Range(knownCompetitors) :
         /\ object' = obj
         /\ brandDetection' = detection
         /\ competitorDetections' = found
         /\ result' = structuredResult(provider, obj, detection, knownCompetitors, found)
    /\ stage' = "structured"
    /\ ipc' = "returned"
    /\ UNCHANGED <<provider, calls, simpleResponse, text, failures>>
    /\ UNCHANGED nonInterpVars

\* generateObject fails and provider === 'Anthropic': the simplified question is asked
StructuredFailsAnthropic ==
    /\ ipc = "structured"
    /\ provider = "Anthropic"
    /\ calls' = Append(calls, "simpleText")
    /\ ipc' = "simple"
    /\ failures' = failures \cup {"generateObject"}
    /\ UNCHANGED <<provider, object, simpleResponse, brandDetection, stage, result, text,
                   competitorDetections>>
    /\ UNCHANGED nonInterpVars

\* generateObject fails for any other provider argument: the final fallback answers
StructuredFailsOther ==
    /\ ipc = "structured"
    /\ provider # "Anthropic"
    /\ \E detection \in Detections, found \in SUBSET Range(knownCompetitors) :
         /\ brandDetection' = detection
         /\ competitorDetections' = found
         /\ result' = heuristicResult(provider, detection, knownCompetitors, found)
    /\ failures' = failures \cup {"generateObject"}
    /\ stage' = "heuristic"
    /\ ipc' = "returned"
    /\ UNCHANGED <<provider, calls, object, simpleResponse, text>>
    /\ UNCHANGED nonInterpVars

\* an interpreter whose simplified answer is dropped in favour of the final fallback
SimpleSucceedsFallsThrough ==
    /\ ipc = "simple"
    /\ \E answer \in SimpleResponses, detection \in Detections,
          found \in SUBSET Range(knownCompetitors) :
         /\ simpleResponse' = answer
         /\ brandDetection' = detection
         /\ competitorDetections' = found
         /\ result' = heuristicResult(provider, detection, knownCompetitors, found)
    /\ stage' = "heuristic"
    /\ ipc' = "returned"
    /\ UNCHANGED <<provider, calls, object, text, failures>>
    /\ UNCHANGED nonInterpVars

\* the simplified question is answered
SimpleSucceeds ==
    /\ ipc = "simple"
    /\ \E answer \in SimpleResponses, detection \in Detections,
          found \in SUBSET Range(knownCompetitors) :
         /\ simpleResponse' = answer
         /\ brandDetection' = detection
         /\ competitorDetections' = found
         /\ result' = simplifiedResult(provider, answer, detection, knownCompetitors, found)
    /\ stage' = "simplified"
    /\ ipc' = "returned"
    /\ UNCHANGED <<provider, calls, object, text, failures>>
    /\ UNCHANGED nonInterpVars

\* the simplified question fails too: the final fallback answers
SimpleFails ==
    /\ ipc = "simple"
    /\ \E detection \in Detections, found \in SUBSET Range(knownCompetitors) :
         /\ brandDetection' = detection
         /\ competitorDetections' = found
         /\ result' = heuristicResult(provider, detection, knownCompetitors, found)
    /\ failures' = failures \cup {"simpleText"}
    /\ stage' = "heuristic"
    /\ ipc' = "returned"
    /\ UNCHANGED <<provider, calls, object, simpleResponse, text>>
    /\ UNCHANGED nonInterpVars

InterpNext ==
    \/ InvokeMock
    \/ InvokeUnconfigured
    \/ Invoke
    \/ TextThrows
    \/ TextEmpty
    \/ TextArrives
    \/ StructuredSucceeds
    \/ StructuredFailsAnthropic
    \/ StructuredFailsOther
    \/ SimpleSucceeds
    \/ SimpleFails

\* one call of analyzePromptWithProvider
SpecInterp == InterpInit /\ [][InterpNext]_vars

-----------------------------------------------------------------------------
(* The scoring functions on their own: positionScore and determineSentiment *)

\* an averagePosition between 1 and the sentinel 99 is about to be scored
PositionInit ==
    /\ AggIdle
    /\ InterpIdle
    /\ fpc = "position"
    /\ scoredPosition \in Positions
    /\ scoredValue = NoScore
    /\ samples = <<>>
    /\ verdict = NoSentiment
    /\ OrchIdle
    /\ StartIdle
    /\ RouteIdle

\* calculateBrandScores computes the position score of the averagePosition
ApplyPositionScore ==
    /\ fpc = "position"
    /\ scoredValue' = positionScore(scoredPosition)
    /\ fpc' = "scored"
    /\ UNCHANGED <<scoredPosition, samples, verdict>>
    /\ UNCHANGED nonFunVars

PositionNext == ApplyPositionScore

\* one evaluation of the position score
SpecPosition == PositionInit /\ [][PositionNext]_vars

\* the sentiment samples of one company are about to be summarised
SentimentInit ==
    /\ AggIdle
    /\ InterpIdle
    /\ fpc = "samples"
    /\ scoredPosition = NoPosition
    /\ scoredValue = NoScore
    /\ samples \in SampleLists
    /\ verdict = NoSentiment
    /\ OrchIdle
    /\ StartIdle
    /\ RouteIdle

\* the aggregator summarises the samples with determineSentiment
ApplyDetermineSentiment ==
    /\ fpc = "samples"
    /\ verdict' = determineSentiment(samples)
    /\ fpc' = "voted"
    /\ UNCHANGED <<scoredPosition, scoredValue, samples>>
    /\ UNCHANGED nonFunVars

SentimentNext == ApplyDetermineSentiment

\* one evaluation of determineSentiment
SpecSentiment == SentimentInit /\ [][SentimentNext]_vars

-----------------------------------------------------------------------------
(* analyzeCompanyAndCompetitors: the analysis loop of the enhanced run *)

\* the units of the run, in the order the loops run them
units == unitsOf(prompts, runProviders, runCompetitors)

\* the call starts: the result lists are empty and the counter is 0
OrchInit ==
    /\ AggIdle
    /\ InterpIdle
    /\ FunIdle
    /\ StartIdle
    /\ RouteIdle
    /\ \E run \in OrchRuns :
         /\ prompts = run.prompts
         /\ runProviders = run.providers
         /\ runCompetitors = run.competitors
    /\ opc = "running"
    /\ unit = 1
    /\ companyResults = <<>>
    /\ competitorResults = [c \in Range(runCompetitors) |-> <<>>]
    /\ completedAnalyses = 0
    /\ progressEvents = <<>>
    /\ outcomes = <<>>

\* the try block of a unit begins: progress is reported and
\* analyzePromptWithProvider is awaited
StartUnit ==
    /\ opc = "running"
    /\ unit <= Len(units)
    /\ progressEvents' = Append(progressEvents,
                                progressOf(completedAnalyses,
                                           totalAnalyses(prompts, runProviders, runCompetitors)))
    /\ opc' = "awaiting"
    /\ UNCHANGED <<prompts, runProviders, runCompetitors, unit, companyResults,
                   competitorResults, completedAnalyses, outcomes>>
    /\ UNCHANGED nonOrchVars

\* analyzePromptWithProvider resolves, with an AIResponse or with null: the entry
\* is pushed to the target's list and the counter moves on
UnitResolves ==
    /\ opc = "awaiting"
    /\ \E resolved \in UnitResults :
         /\ companyResults' = pushCompany(companyResults, units[unit], resolved)
         /\ competitorResults' = pushCompetitor(competitorResults, units[unit], resolved)
         /\ outcomes' = Append(outcomes, resolved)
    /\ completedAnalyses' = completedAnalyses + 1
    /\ unit' = unit + 1
    /\ opc' = "running"
    /\ UNCHANGED <<prompts, runProviders, runCompetitors, progressEvents>>
    /\ UNCHANGED nonOrchVars

\* a run whose catch block rethrows: the first failing unit ends the call
UnitThrowsAborting ==
    /\ opc = "awaiting"
    /\ outcomes' = Append(outcomes, Thrown)
    /\ opc' = "thrown"
    /\ UNCHANGED <<prompts, runProviders, runCompetitors, unit, companyResults,
                   competitorResults, completedAnalyses, progressEvents>>
    /\ UNCHANGED nonOrchVars

\* a run whose catch block pushes an entry without a result for the failed unit
UnitThrowsKeepingEntry ==
    /\ opc = "awaiting"
    /\ companyResults' = pushCompany(companyResults, units[unit], NullResult)
    /\ competitorResults' = pushCompetitor(competitorResults, units[unit], NullResult)
    /\ outcomes' = Append(outcomes, Thrown)
    /\ completedAnalyses' = completedAnalyses + 1
    /\ unit' = unit + 1
    /\ opc' = "running"
    /\ UNCHANGED <<prompts, runProviders, runCompetitors, progressEvents>>
    /\ UNCHANGED nonOrchVars

\* a run whose catch block leaves completedAnalyses as it is
UnitThrowsUncounted ==
    /\ opc = "awaiting"
    /\ outcomes' = Append(outcomes, Thrown)
    /\ unit' = unit + 1
    /\ opc' = "running"
    /\ UNCHANGED <<prompts, runProviders, runCompetitors, companyResults,
                   competitorResults, completedAnalyses, progressEvents>>
    /\ UNCHANGED nonOrchVars

\* analyzePromptWithProvider throws: the catch block logs, nothing is pushed and
\* the counter moves on
UnitThrows ==
    /\ opc = "awaiting"
    /\ outcomes' = Append(outcomes, Thrown)
    /\ completedAnalyses' = completedAnalyses + 1
    /\ unit' = unit + 1
    /\ opc' = "running"
    /\ UNCHANGED <<prompts, runProviders, runCompetitors, companyResults,
                   competitorResults, progressEvents>>
    /\ UNCHANGED nonOrchVars

\* the loops are over: { companyResults, competitorResults } is returned
OrchReturn ==
    /\ opc = "running"
    /\ unit > Len(units)
    /\ opc' = "returned"
    /\ UNCHANGED <<prompts, runProviders, runCompetitors, unit, companyResults,
                   competitorResults, completedAnalyses, progressEvents, outcomes>>
    /\ UNCHANGED nonOrchVars

OrchNext ==
    \/ StartUnit
    \/ UnitResolves
    \/ UnitThrows
    \/ OrchReturn

\* one call of analyzeCompanyAndCompetitors
SpecOrch == OrchInit /\ [][OrchNext]_vars

\* the awaited analyzePromptWithProvider never settles: generateText is called
\* without a timeout or an abort signal, and the loop has none of its own
UnitHangs ==
    /\ opc = "awaiting"
    /\ opc' = "hung"
    /\ UNCHANGED <<prompts, runProviders, runCompetitors, unit, companyResults,
                   competitorResults, completedAnalyses, progressEvents, outcomes>>
    /\ UNCHANGED nonOrchVars

OrchHangNext ==
    \/ OrchNext
    \/ UnitHangs

\* one call of analyzeCompanyAndCompetitors whose provider calls may never settle;
\* the loop itself always takes its next step
SpecOrchHang == OrchInit /\ [][OrchHangNext]_vars /\ WF_vars(OrchHangNext)

-----------------------------------------------------------------------------
(* The start of a run: identifyCompetitors, runEnhancedBrandAnalysis (through
   discoverCompetitorsEnhanced) and generatePromptsForCompany, each up to its
   return, its failure or its first await of a model call; identifyCompetitors
   is followed to its end *)

\* an entry point is called
StartInit ==
    /\ AggIdle
    /\ InterpIdle
    /\ FunIdle
    /\ OrchIdle
    /\ RouteIdle
    /\ entryPoint \in EntryPoints
    /\ startProviders \in StartProviderLists
    /\ modelsAvailable \in BOOLEAN
    /\ scrapedCompetitors \in ScrapedLists
    /\ epc = "called"
    /\ modelCalls = 0
    /\ startEvents = <<>>
    /\ startValue = NoList

\* identifyCompetitors without a provider or without a model: the throw is inside
\* the function's try, and its catch returns the scraped competitors or []
IdentifyWithoutModel ==
    /\ entryPoint = "identifyCompetitors"
    /\ epc = "called"
    /\ startProviders = <<>> \/ ~modelsAvailable
    /\ epc' = "returned"
    /\ startValue' = scrapedOrEmpty(scrapedCompetitors)
    /\ UNCHANGED <<entryPoint, startProviders, modelsAvailable, scrapedCompetitors,
                   modelCalls, startEvents>>
    /\ UNCHANGED nonStartVars

\* identifyCompetitors with a model: the market analysis is asked for
IdentifyAsksMarket ==
    /\ entryPoint = "identifyCompetitors"
    /\ epc = "called"
    /\ startProviders # <<>> /\ modelsAvailable
    /\ modelCalls' = modelCalls + 1
    /\ epc' = "market"
    /\ UNCHANGED <<entryPoint, startProviders, modelsAvailable, scrapedCompetitors,
                   startEvents, startValue>>
    /\ UNCHANGED nonStartVars

\* the market analysis is answered or fails (the inner catch falls back to the
\* domain): the competitors are asked for with generateObject
IdentifyAsksCompetitors ==
    /\ entryPoint = "identifyCompetitors"
    /\ epc = "market"
    /\ modelCalls' = modelCalls + 1
    /\ epc' = "competitors"
    /\ UNCHANGED <<entryPoint, startProviders, modelsAvailable, scrapedCompetitors,
                   startEvents, startValue>>
    /\ UNCHANGED nonStartVars

\* generateObject answers: the scraped competitors are added, one event per
\* competitor is sent and the list is returned
IdentifyReturns ==
    /\ entryPoint = "identifyCompetitors"
    /\ epc = "competitors"
    /\ \E found \in FoundLists :
         LET all == addScraped(found, scrapedOrEmpty(scrapedCompetitors))
         IN /\ startEvents' = startEvents \o competitorFoundEvents(all)
            /\ startValue' = all
    /\ epc' = "returned"
    /\ UNCHANGED <<entryPoint, startProviders, modelsAvailable, scrapedCompetitors, modelCalls>>
    /\ UNCHANGED nonStartVars

\* generateObject throws: the catch returns the scraped competitors or []
IdentifyFallsBack ==
    /\ entryPoint = "identifyCompetitors"
    /\ epc = "competitors"
    /\ epc' = "returned"
    /\ startValue' = scrapedOrEmpty(scrapedCompetitors)
    /\ UNCHANGED <<entryPoint, startProviders, modelsAvailable, scrapedCompetitors,
                   modelCalls, startEvents>>
    /\ UNCHANGED nonStartVars

\* discoverCompetitorsEnhanced without a provider: the error goes through
\* runEnhancedBrandAnalysis, whose catch rethrows it
DiscoverWithoutProvider ==
    /\ entryPoint = "runEnhancedBrandAnalysis"
    /\ epc = "called"
    /\ startProviders = <<>>
    /\ epc' = "thrown"
    /\ UNCHANGED <<entryPoint, startProviders, modelsAvailable, scrapedCompetitors,
                   modelCalls, startEvents, startValue>>
    /\ UNCHANGED nonStartVars

\* discoverCompetitorsEnhanced with a provider and a model: progress 10 is sent
\* and the industry analysis is asked for
DiscoverAsksIndustry ==
    /\ entryPoint = "runEnhancedBrandAnalysis"
    /\ epc = "called"
    /\ startProviders # <<>> /\ modelsAvailable
    /\ startEvents' = Append(startEvents, progressEvent(10))
    /\ modelCalls' = modelCalls + 1
    /\ epc' = "industry"
    /\ UNCHANGED <<entryPoint, startProviders, modelsAvailable, scrapedCompetitors, startValue>>
    /\ UNCHANGED nonStartVars

\* discoverCompetitorsEnhanced with providers but no model: the industry analysis
\* takes its defaults, every provider of the loop is skipped, and the empty
\* competitor list is returned after progress 90
DiscoverWithoutModel ==
    /\ entryPoint = "runEnhancedBrandAnalysis"
    /\ epc = "called"
    /\ startProviders # <<>> /\ ~modelsAvailable
    /\ startEvents' = (<<progressEvent(10), progressEvent(30)>>
                         \o discoveryEvents(providersToUse(startProviders)))
                         \o <<progressEvent(90)>>
    /\ startValue' = <<>>
    /\ epc' = "discovered"
    /\ UNCHANGED <<entryPoint, startProviders, modelsAvailable, scrapedCompetitors, modelCalls>>
    /\ UNCHANGED nonStartVars

\* generatePromptsForCompany without a provider or without a model: the throw is
\* outside every try and reaches the caller
PromptsWithoutModel ==
    /\ entryPoint = "generatePromptsForCompany"
    /\ epc = "called"
    /\ startProviders = <<>> \/ ~modelsAvailable
    /\ epc' = "thrown"
    /\ UNCHANGED <<entryPoint, startProviders, modelsAvailable, scrapedCompetitors,
                   modelCalls, startEvents, startValue>>
    /\ UNCHANGED nonStartVars

\* generatePromptsForCompany with a model: the market analysis is asked for
PromptsAsksMarket ==
    /\ entryPoint = "generatePromptsForCompany"
    /\ epc = "called"
    /\ startProviders # <<>> /\ modelsAvailable
    /\ modelCalls' = modelCalls + 1
    /\ epc' = "market"
    /\ UNCHANGED <<entryPoint, startProviders, modelsAvailable, scrapedCompetitors,
                   startEvents, startValue>>
    /\ UNCHANGED nonStartVars

StartNext ==
    \/ IdentifyWithoutModel
    \/ IdentifyAsksMarket
    \/ IdentifyAsksCompetitors
    \/ IdentifyReturns
    \/ IdentifyFallsBack
    \/ DiscoverWithoutProvider
    \/ DiscoverAsksIndustry
    \/ DiscoverWithoutModel
    \/ PromptsWithoutModel
    \/ PromptsAsksMarket

\* the start of one run
SpecStart == StartInit /\ [][StartNext]_vars

(* The streaming task of the analyze route: the async function POST starts
   after it has made the TransformStream and its writer.  route.ts holds two
   versions of the handler; their tasks differ only in the type of the first
   event.  performAnalysis is imported from analyze-common: here it hands
   events to sendEvent and then returns or throws.  The writer follows the
   Streams standard: once the readable side is cancelled the stream is
   errored, and from then on write() and close() reject. *)

RouteVersions == {1, 2}

\* the type of the event the task sends first
initialEventType(version) == IF version = 1 THEN "credits" ELSE "progress"

\* how many events of one type were written
eventsOfType(events, type) == Cardinality({i \in 1..Len(events) : events[i] = type})

\* the events performAnalysis has written itself
progressWritten == Len(written) - 1

\* POST has made the stream and started the task
RouteInit ==
    /\ AggIdle
    /\ InterpIdle
    /\ FunIdle
    /\ OrchIdle
    /\ StartIdle
    /\ routeVersion \in RouteVersions
    /\ rpc = "initial"
    /\ written = <<>>
    /\ writerState = "open"
    /\ closeCalls = 0
    /\ writtenAtClose = 0
    /\ analysisOutcome = "pending"

\* sendEvent: the write is accepted, or it rejects on an errored stream
sendEvent(type, accepted, rejected) ==
    /\ IF writerState = "open"
         THEN written' = Append(written, type) /\ rpc' = accepted
         ELSE written' = written /\ rpc' = rejected
    /\ UNCHANGED <<routeVersion, writerState, closeCalls, writtenAtClose,
                   analysisOutcome>>
    /\ UNCHANGED nonRouteVars

\* the first event of the task
SendInitial ==
    /\ rpc = "initial"
    /\ sendEvent(initialEventType(routeVersion), "analysis", "catch")

\* performAnalysis hands one event to sendEvent and the write is accepted
AnalysisEmits ==
    /\ rpc = "analysis"
    /\ writerState = "open"
    /\ progressWritten < MaxProgress
    /\ sendEvent("progress", "analysis", "analysis")

\* performAnalysis throws, for a reason of its own or a rejected write
AnalysisThrowsToComplete ==
    /\ rpc = "analysis"
    /\ analysisOutcome' = "thrown"
    /\ rpc' = "complete"
    /\ UNCHANGED <<routeVersion, written, writerState, closeCalls, writtenAtClose>>
    /\ UNCHANGED nonRouteVars

\* performAnalysis throws, for a reason of its own or a rejected write
AnalysisThrows ==
    /\ rpc = "analysis"
    /\ analysisOutcome' = "thrown"
    /\ rpc' = "catch"
    /\ UNCHANGED <<routeVersion, written, writerState, closeCalls, writtenAtClose>>
    /\ UNCHANGED nonRouteVars

\* performAnalysis returns its result
AnalysisReturns ==
    /\ rpc = "analysis"
    /\ analysisOutcome' = "returned"
    /\ rpc' = "complete"
    /\ UNCHANGED <<routeVersion, written, writerState, closeCalls, writtenAtClose>>
    /\ UNCHANGED nonRouteVars

\* the last statement of the try block
SendComplete ==
    /\ rpc = "complete"
    /\ sendEvent("complete", "finally", "catch")

\* the catch block, with the writer closed in the try block instead
SendErrorWithoutFinally ==
    /\ rpc = "catch"
    /\ sendEvent("error", "settled", "rejected")

\* the catch block; when its write rejects the finally block still runs
SendError ==
    /\ rpc = "catch"
    /\ sendEvent("error", "finally", "finally")

\* the finally block: close() closes an open stream and rejects on an
\* errored one, which rejects the promise of the task
CloseWriter ==
    /\ rpc = "finally"
    /\ closeCalls' = closeCalls + 1
    /\ writtenAtClose' = Len(written)
    /\ IF writerState = "open"
         THEN writerState' = "closed" /\ rpc' = "settled"
         ELSE writerState' = writerState /\ rpc' = "rejected"
    /\ UNCHANGED <<routeVersion, written, analysisOutcome>>
    /\ UNCHANGED nonRouteVars

\* the client goes away: the readable side is cancelled
ReaderCancels ==
    /\ rpc \notin {"idle", "settled", "rejected"}
    /\ writerState = "open"
    /\ writerState' = "errored"
    /\ UNCHANGED <<routeVersion, rpc, written, closeCalls, writtenAtClose,
                   analysisOutcome>>
    /\ UNCHANGED nonRouteVars

\* the steps of the task itself
RouteTask ==
    \/ SendInitial
    \/ AnalysisEmits
    \/ AnalysisThrows
    \/ AnalysisReturns
    \/ SendComplete
    \/ SendError
    \/ CloseWriter

RouteNext ==
    \/ RouteTask
    \/ ReaderCancels

\* every await of the task settles
SpecRoute == RouteInit /\ [][RouteNext]_vars /\ WF_vars(RouteTask)

-----------------------------------------------------------------------------
(* Vocabulary of the properties *)

\* the entry of a company in a ranking
entryOf(ranking, name) ==
    ranking[CHOOSE i \in 1..Len(ranking) : ranking[i].name = name]

\* the names the run tracks
Tracked == Range(trackedCompanies(knownCompetitors))

\* the providers that have a scope of their own
Providers == Range(providersOf(configuredProviders))

\* the competitors list of provider p in a providerRankings value
rankingOfProvider(rankings, p) ==
    rankings[CHOOSE i \in 1..Len(rankings) : rankings[i].provider = p].competitors

\* the responses of one provider, in arrival order
scopeOf(list, p) ==
    LET Test(response) == response.provider = p IN SelectSeq(list, Test)

\* every ranking the aggregation returned: the global one and one per provider
AllRankings ==
    {competitors} \cup {providerRankings[i].competitors : i \in 1..Len(providerRankings)}

RECURSIVE shareSum(_)
shareSum(ranking) ==
    IF ranking = <<>> THEN 0 ELSE Head(ranking).shareOfVoice + shareSum(Tail(ranking))

Abs(x) == IF x < 0 THEN 0 - x ELSE x

Prefix(list, k) == SubSeq(list, 1, k)

\* some entry of the rankings of a response names the company
rankedIn(response, name) ==
    \E i \in 1..Len(response.rankings) : response.rankings[i].company = name

-----------------------------------------------------------------------------
(* Properties *)

\* C1: in the global scope and in every provider's scope, folding one response
\* raises the mentions of a tracked company by at most 1, however often the
\* rankings of that response name the company.
C1_OneMentionPerResponse ==
    phase = "done" =>
      \A k \in 1..Len(responses) : \A c \in Tracked :
        /\ entryOf(analyzeCompetitors(Prefix(responses, k), knownCompetitors), c).mentions
             <= entryOf(analyzeCompetitors(Prefix(responses, k - 1), knownCompetitors), c).mentions + 1
        /\ \A p \in Providers :
             entryOf(rankingOfProvider(
                       analyzeCompetitorsByProvider(Prefix(responses, k), knownCompetitors,
                                                    configuredProviders), p), c).mentions
               <= entryOf(rankingOfProvider(
                            analyzeCompetitorsByProvider(Prefix(responses, k - 1),
                                                         knownCompetitors,
                                                         configuredProviders), p), c).mentions + 1

\* C2: every entry of every returned ranking has a visibilityScore that is a
\* number between 0 and 100.
C2_VisibilityInRange ==
    phase = "done" =>
      \A ranking \in AllRankings : \A i \in 1..Len(ranking) :
        /\ ranking[i].visibilityScore # NaN
        /\ ranking[i].visibilityScore >= 0
        /\ ranking[i].visibilityScore <= 1000

\* C3: provider P's visibilityScore is the company's mentions among P's responses
\* over the number of responses of P, and P's whole ranking is what the responses
\* of P alone give: the responses of other providers do not reach it.
C3_ProviderScopeIsolated ==
    phase = "done" =>
      \A p \in Providers :
        LET ranking == rankingOfProvider(providerRankings, p)
            scope == scopeOf(responses, p)
            alone == rankingOfProvider(
                        analyzeCompetitorsByProvider(scope, knownCompetitors,
                                                     configuredProviders), p)
        IN /\ ranking = alone
           /\ \A c \in Tracked :
                entryOf(ranking, c).visibilityScore =
                   IF Len(scope) = 0 THEN 0
                   ELSE RoundDiv(1000 * entryOf(ranking, c).mentions, Len(scope))

C3_Witness ==
    /\ phase = "done"
    /\ Len(responses) = 2
    /\ responses[1].provider = "OpenAI"
    /\ responses[2].provider = "Anthropic"
    /\ entryOf(rankingOfProvider(providerRankings, "OpenAI"), Brand).visibilityScore = 1000
    /\ entryOf(rankingOfProvider(providerRankings, "Anthropic"), Brand).visibilityScore = 0
    /\ entryOf(competitors, Brand).visibilityScore = 500

\* C4 as stated: with at least one mention in a scope, the shareOfVoice values of
\* the scope add up to 100 within 0.1.
C4_ShareSumWithinTenth ==
    phase = "done" =>
      \A ranking \in AllRankings :
        totalMentionsOf(ranking) >= 1 => Abs(shareSum(ranking) - 1000) <= 1

\* C4 amended: with at least one mention in a scope, the shareOfVoice values add
\* up to 100 within 0.05 per tracked company (each entry is rounded on its own).
C4_ShareSumWithinRounding ==
    phase = "done" =>
      \A ranking \in AllRankings :
        totalMentionsOf(ranking) >= 1 =>
          2 * Abs(shareSum(ranking) - 1000) <= Len(ranking)

C4_Witness ==
    /\ phase = "done"
    /\ Len(competitors) = 6
    /\ totalMentionsOf(competitors) = 6
    /\ shareSum(competitors) = 1002

\* C5: the rankings and the brand summary do not depend on the order of the
\* response list.
C5_ShuffleInvariant ==
    phase = "done" =>
      \A f \in Shuffles(Len(responses)) :
        LET shuffled == Permuted(responses, f)
            again == analyzeCompetitors(shuffled, knownCompetitors)
        IN /\ again = competitors
           /\ calculateBrandScores(shuffled, again) = brandScores

C5_Witness ==
    /\ phase = "done"
    /\ Len(responses) = 2
    /\ responses[1] # responses[2]
    /\ rankedIn(responses[1], Brand)
    /\ ~rankedIn(responses[2], Brand)
    /\ responses[2].brandPosition # NoPosition
    /\ entryOf(competitors, Brand).mentions = 2
    /\ brandScores.averagePosition = 20

\* C6: with no response at all the brand summary is all zero, whatever the
\* brand's entry in the ranking holds.
C6_ZeroResponseSummary ==
    (phase = "done" /\ Len(responses) = 0) =>
       /\ brandScores.visibilityScore = 0
       /\ brandScores.sentimentScore = 0
       /\ brandScores.shareOfVoice = 0
       /\ brandScores.overallScore = 0
       /\ brandScores.averagePosition = 0

C6_Witness ==
    /\ phase = "done"
    /\ Len(responses) = 0
    /\ entryOf(competitors, Brand).averagePosition = 990
    /\ entryOf(competitors, Brand).sentimentScore = 500
    /\ brandScores.averagePosition = 0

\* no response of the list gives the company a position
noPositionIn(list, c) ==
    \A i \in 1..Len(list) :
        /\ ~rankedIn(list[i], c)
        /\ c = Brand => list[i].brandPosition = NoPosition

\* C7: in every scope a tracked company with mentions but without any recorded
\* position reports averagePosition 99, and the brand summary carries that 99.
C7_UnrankedSentinel ==
    phase = "done" =>
      /\ \A c \in Tracked :
           /\ (entryOf(competitors, c).mentions > 0 /\ noPositionIn(responses, c))
                => entryOf(competitors, c).averagePosition = 990
           /\ \A p \in Providers :
                (/\ entryOf(rankingOfProvider(providerRankings, p), c).mentions > 0
                 /\ noPositionIn(scopeOf(responses, p), c))
                => entryOf(rankingOfProvider(providerRankings, p), c).averagePosition = 990
      /\ (entryOf(competitors, Brand).mentions > 0 /\ noPositionIn(responses, Brand))
           => brandScores.averagePosition = 990

C7_Witness ==
    /\ phase = "done"
    /\ Len(responses) = 2
    /\ noPositionIn(responses, Brand)
    /\ entryOf(competitors, Brand).mentions = 2
    /\ brandScores.averagePosition = 990
    /\ \E p \in Providers :
          entryOf(rankingOfProvider(providerRankings, p), Brand).mentions = 2

\* C8: whenever the detector reports the brand in the raw text, the returned
\* result has brandMentioned true, whatever the structured analysis or the
\* simplified answer says.
C8_DetectionUnion ==
    (ipc = "returned" /\ brandDetection.called /\ brandDetection.mentioned)
       => result.brandMentioned

C8_Witness ==
    /\ ipc = "returned"
    /\ stage = "structured"
    /\ ~object.analysis.brandMentioned
    /\ findBrand(object.rankings) = 0
    /\ brandDetection.mentioned
    /\ result.brandMentioned

\* C9: every returned result whose rankings hold an entry for the brand has
\* brandMentioned true.
C9_RankedBrandIsMentioned ==
    (ipc = "returned" /\ findBrand(result.rankings) # 0) => result.brandMentioned

\* C10: whenever the structured extraction fails, the simplified follow-up
\* question is issued before the heuristic fallback is used, for every provider.
C10_SimplifiedBeforeHeuristic ==
    stage = "heuristic" => \E i \in 1..Len(calls) : calls[i] = "simpleText"

\* the calls made so far hold the call named
called(name) == \E i \in 1..Len(calls) : calls[i] = name

\* the stages that produce a result from a provider's text
ResultStages == {"structured", "simplified", "heuristic"}

\* C11: a structured result means no simplified call and no failed call; a
\* simplified result means the structured extraction failed and the simplified
\* call did not; a heuristic result means the structured extraction failed and
\* the simplified call was either not made or failed; a returned result comes
\* from exactly one stage, and no call follows the stage that answered.
C11_EscalationLadder ==
    /\ stage = "structured" =>
          /\ calls = <<"generateText", "generateObject">>
          /\ failures = {}
          /\ result # noResult
          /\ ipc = "returned"
    /\ stage = "simplified" =>
          /\ calls = <<"generateText", "generateObject", "simpleText">>
          /\ failures = {"generateObject"}
          /\ ipc = "returned"
    /\ stage = "heuristic" =>
          /\ "generateObject" \in failures
          /\ called("generateObject")
          /\ \/ ~called("simpleText")
             \/ "simpleText" \in failures
          /\ ipc = "returned"
    /\ (ipc = "returned" /\ called("generateText")) => stage \in ResultStages

\* a call for Anthropic whose structured extraction and simplified question both
\* failed and that was answered by the final fallback
C11_Witness ==
    /\ stage = "heuristic"
    /\ provider = "Anthropic"
    /\ failures = {"generateObject", "simpleText"}
    /\ calls = <<"generateText", "generateObject", "simpleText">>

\* C12: the result of the final fallback has the detector's verdict as
\* brandMentioned, the known competitors the detector finds as competitors, no
\* rankings, no brandPosition, sentiment neutral and half the detector's
\* confidence.
C12_HeuristicResult ==
    stage = "heuristic" =>
        /\ result.brandMentioned = brandDetection.mentioned
        /\ Len(result.competitors) = Cardinality(Range(result.competitors))
        /\ Range(result.competitors) = competitorDetections \cap Range(knownCompetitors)
        /\ result.rankings = <<>>
        /\ result.brandPosition = NoPosition
        /\ result.sentiment = "neutral"
        /\ 2 * result.confidence = brandDetection.confidence

\* a final fallback whose detector found the brand with confidence 0.8 and one
\* of the two known competitors
C12_Witness ==
    /\ stage = "heuristic"
    /\ brandDetection.mentioned
    /\ brandDetection.confidence = 80
    /\ result.confidence = 40
    /\ Cardinality(competitorDetections) = 1

\* C13: an empty text ends the call with an error: no result, no call after
\* generateText, and none of the three stages answers.
C13_EmptyTextThrows ==
    text = "" =>
        /\ ipc = "thrown"
        /\ result = noResult
        /\ calls = <<"generateText">>
        /\ stage \notin ResultStages

\* a call whose generateText returned the empty text
C13_Witness ==
    /\ text = ""
    /\ ipc = "thrown"
    /\ calls = <<"generateText">>

\* C14 as stated: a lower average position never scores lower than a higher one.
C14_PositionScoreMonotone ==
    fpc = "scored" =>
        \A q \in Positions : scoredPosition < q => scoredValue >= positionScore(q)

\* the number of samples with the sentiment named, counted over the sample list
votes(v) == Cardinality({i \in 1..Len(samples) : samples[i] = v})

\* C18: the verdict is positive exactly when the positive samples outnumber the
\* negative and the neutral ones, negative exactly when the negative samples
\* outnumber both others, and neutral otherwise, ties and no samples included.
C18_StrictPlurality ==
    fpc = "voted" =>
        /\ verdict = "positive" <=>
              (votes("positive") > votes("negative") /\ votes("positive") > votes("neutral"))
        /\ verdict = "negative" <=>
              (votes("negative") > votes("positive") /\ votes("negative") > votes("neutral"))
        /\ verdict = "neutral" <=>
              /\ \E w \in {"negative", "neutral"} : votes(w) >= votes("positive")
              /\ \E w \in {"positive", "neutral"} : votes(w) >= votes("negative")
        /\ samples = <<>> => verdict = "neutral"

\* two positive and two negative samples tie for first place and give neutral
C18_Witness ==
    /\ fpc = "voted"
    /\ votes("positive") = 2
    /\ votes("negative") = 2
    /\ verdict = "neutral"

\* ten times the weighted sum of the brand summary's inputs, all in tenths:
\* visibility x 0.3 + sentiment x 0.2 + share of voice x 0.3 + position score x 0.2
weightedSum(entry) ==
    LET p == entry.averagePosition
        linear == 1100 - 10 * p
        decay == 1000 - 2 * p
        score == IF p <= 100 THEN linear ELSE IF decay > 0 THEN decay ELSE 0
    IN 3 * entry.visibilityScore + 2 * entry.sentimentScore
       + 3 * entry.shareOfVoice + 2 * score

\* C15: for a non-empty response list the summary's overallScore is the tenth
\* nearest to the weighted sum of the brand entry's four inputs, and the other
\* four fields are the brand entry's fields.
C15_OverallScoreFormula ==
    (phase = "done" /\ Len(responses) > 0 /\ findOwn(competitors) # 0) =>
        LET own == competitors[findOwn(competitors)]
        IN /\ 10 * brandScores.overallScore - 5 <= weightedSum(own)
           /\ weightedSum(own) < 10 * brandScores.overallScore + 5
           /\ brandScores.visibilityScore = own.visibilityScore
           /\ brandScores.sentimentScore = own.sentimentScore
           /\ brandScores.shareOfVoice = own.shareOfVoice
           /\ brandScores.averagePosition = own.averagePosition

\* two responses rank the brand first and second among seven tracked names:
\* 100 x 0.3 + 75 x 0.2 + 28.6 x 0.3 + 95 x 0.2 = 72.58 gives 72.6
C15_Witness ==
    /\ phase = "done"
    /\ Len(responses) = 2
    /\ findOwn(competitors) # 0
    /\ entryOf(competitors, Brand).averagePosition = 15
    /\ entryOf(competitors, Brand).shareOfVoice = 286
    /\ brandScores.overallScore = 726

\* the response names the brand in its rankings
ranksBrand(response) ==
    \E i \in 1..Len(response.rankings) : response.rankings[i].company = Brand

\* the response list with the three brand fields of every response that ranks
\* the brand replaced by the fields given
withBrandFields(list, fields) ==
    [i \in 1..Len(list) |->
        IF ranksBrand(list[i])
        THEN [list[i] EXCEPT !.brandMentioned = fields.brandMentioned,
                             !.brandPosition = fields.brandPosition,
                             !.sentiment = fields.sentiment]
        ELSE list[i]]

\* a response that says nothing of the brand outside its rankings
silentFields ==
    [brandMentioned |-> FALSE, brandPosition |-> NoPosition, sentiment |-> "neutral"]

\* C16: both scopes return the rankings they return when every response that
\* ranks the brand has brandMentioned false, no brandPosition and a neutral
\* sentiment, so those fields of such a response add nothing; and the brand's
\* global mentions count the responses that rank it once each plus those that do
\* not rank it and have brandMentioned set.
C16_BrandFieldsOnlyWhenUnranked ==
    phase = "done" =>
        /\ (\E i \in 1..Len(responses) : ranksBrand(responses[i])) =>
              /\ competitors =
                    analyzeCompetitors(withBrandFields(responses, silentFields),
                                       knownCompetitors)
              /\ providerRankings =
                    analyzeCompetitorsByProvider(withBrandFields(responses, silentFields),
                                                 knownCompetitors, configuredProviders)
        /\ entryOf(competitors, Brand).mentions =
              Cardinality({i \in 1..Len(responses) :
                              ranksBrand(responses[i]) \/ responses[i].brandMentioned})

\* one response ranks the brand first and also says brandMentioned at position 3
\* with a negative sentiment; a second one only says brandMentioned: two
\* mentions, and the position and sentiment of the first come from its ranking
C16_Witness ==
    /\ phase = "done"
    /\ Len(responses) = 2
    /\ ranksBrand(responses[1])
    /\ Len(responses[1].rankings) = 1
    /\ responses[1].brandMentioned
    /\ responses[1].brandPosition = 3
    /\ responses[1].sentiment = "negative"
    /\ ~ranksBrand(responses[2])
    /\ responses[2].brandMentioned
    /\ responses[2].brandPosition = NoPosition
    /\ entryOf(competitors, Brand).mentions = 2
    /\ entryOf(competitors, Brand).averagePosition = 10

\* the response names the company: in its rankings, or as the brand it mentions
names(response, c) ==
    \/ \E i \in 1..Len(response.rankings) : response.rankings[i].company = c
    \/ c = Brand /\ response.brandMentioned

\* a ranking holds one entry for each name of the brand and the known
\* competitors, none twice, none else, and the brand's is the only own entry
oneEntryPerTracked(ranking) ==
    /\ {ranking[i].name : i \in 1..Len(ranking)} = {Brand} \cup Range(knownCompetitors)
    /\ Len(ranking) = Cardinality({Brand} \cup Range(knownCompetitors))
    /\ \A i \in 1..Len(ranking) : ranking[i].isOwn <=> ranking[i].name = Brand

\* C17: the global ranking and each provider's ranking hold exactly one entry per
\* distinct tracked name, exactly one of them own; a company no response of the
\* scope names has mentions 0.
C17_OneEntryPerTrackedCompany ==
    phase = "done" =>
        /\ oneEntryPerTracked(competitors)
        /\ \A c \in {Brand} \cup Range(knownCompetitors) :
              (\A i \in 1..Len(responses) : ~names(responses[i], c))
                  => entryOf(competitors, c).mentions = 0
        /\ \A k \in 1..Len(providerRankings) :
              /\ oneEntryPerTracked(providerRankings[k].competitors)
              /\ \A c \in {Brand} \cup Range(knownCompetitors) :
                    (\A i \in 1..Len(responses) :
                        responses[i].provider = providerRankings[k].provider
                            => ~names(responses[i], c))
                        => entryOf(providerRankings[k].competitors, c).mentions = 0

\* the brand is repeated among the known competitors, a response ranks six
\* companies of which four are not tracked, and the rankings hold two entries
C17_Witness ==
    /\ phase = "done"
    /\ knownCompetitors = <<"Acme", Brand, "Acme">>
    /\ \E i \in 1..Len(responses) : Len(responses[i].rankings) = 6
    /\ Len(competitors) = 2
    /\ Len(providerRankings) = 2
    /\ \A k \in 1..Len(providerRankings) : Len(providerRankings[k].competitors) = 2

RECURSIVE keptUpTo(_, _, _)
\* the entries of the first n units that belong to the target's list (the
\* company's when forCompany, else the competitor's) and did not throw, in order
keptUpTo(n, forCompany, target) ==
    IF n = 0 THEN <<>>
    ELSE LET u == units[n]
             before == keptUpTo(n - 1, forCompany, target)
         IN IF u.isCompany = forCompany /\ u.target = target /\ outcomes[n] # Thrown
            THEN Append(before, [prompt |-> <<u.prompt, u.target>>, provider |-> u.provider,
                                 result |-> outcomes[n], target |-> u.target])
            ELSE before

\* C19: the call never ends with an exception; the units are attempted one after
\* the other whatever the earlier ones did; every list holds the entries of its
\* units that did not throw, in order, and nothing for those that threw; and at
\* the return every unit has been attempted.
C19_FailedUnitSkipped ==
    /\ opc \in {"running", "awaiting", "returned"}
    /\ Len(outcomes) = unit - 1
    /\ Len(progressEvents) = Len(outcomes) + (IF opc = "awaiting" THEN 1 ELSE 0)
    /\ companyResults = keptUpTo(Len(outcomes), TRUE, Brand)
    /\ \A c \in Range(runCompetitors) :
          competitorResults[c] = keptUpTo(Len(outcomes), FALSE, c)
    /\ opc = "returned" => Len(outcomes) = Len(units)

\* a returned run of eight units whose second unit threw and whose later units,
\* the last one included, delivered: three of the four company entries are kept
C19_Witness ==
    /\ opc = "returned"
    /\ Len(units) = 8
    /\ outcomes[2] = Thrown
    /\ \A i \in 3..8 : outcomes[i] = "AIResponse"
    /\ Len(companyResults) = 3
    /\ Len(competitorResults["Acme"]) = 4

\* the AIResponse list the scoring is fed from the company's entries
scoredResponses == [i \in 1..Len(companyResults) |-> companyResults[i].result]

\* C20: a run all of whose units threw returns with no entry in any list, and the
\* brand summary of its empty response list is all zero.
C20_AllFailedReturnsEmpty ==
    (opc = "returned" /\ \A i \in 1..Len(outcomes) : outcomes[i] = Thrown) =>
        /\ Len(outcomes) = Len(units)
        /\ companyResults = <<>>
        /\ \A c \in Range(runCompetitors) : competitorResults[c] = <<>>
        /\ calculateBrandScores(scoredResponses,
                                analyzeCompetitors(scoredResponses, runCompetitors))
             = zeroScores

\* a returned run whose eight units all threw
C20_Witness ==
    /\ opc = "returned"
    /\ Len(units) = 8
    /\ Len(outcomes) = 8
    /\ \A i \in 1..8 : outcomes[i] = Thrown
    /\ companyResults = <<>>


\* C21: no list of the run holds an entry for a unit whose
\* analyzePromptWithProvider returned null.
C21_NullUnitExcluded ==
    /\ \A i \in 1..Len(companyResults) : companyResults[i].result # NullResult
    /\ \A c \in DOMAIN competitorResults :
          \A i \in 1..Len(competitorResults[c]) :
              competitorResults[c][i].result # NullResult


\* C22: an entry point called with no configured provider ends with an error,
\* without a model call and without an event.
C22_NoProviderFailsAtStart ==
    (startProviders = <<>> /\ entryPoint # "none" /\ epc # "called") =>
        /\ epc = "thrown"
        /\ modelCalls = 0
        /\ startEvents = <<>>


\* C23: every run returns in the end, also when a provider call never settles.
C23_RunEventuallyReturns == <>(opc = "returned")


\* the streaming task has run to its end
taskOver == rpc \in {"settled", "rejected"}

errorsWritten == eventsOfType(written, "error")

completesWritten == eventsOfType(written, "complete")

\* C24 as stated: when performAnalysis fails exactly one 'error' event is
\* written, no 'complete' event is, and the error event is the last one; when
\* it succeeds exactly one 'complete' event is written and no 'error' event.
C24_OneTerminalEvent ==
    taskOver =>
        /\ analysisOutcome = "thrown" =>
              /\ errorsWritten = 1
              /\ completesWritten = 0
              /\ written[Len(written)] = "error"
        /\ analysisOutcome = "returned" =>
              /\ completesWritten = 1
              /\ errorsWritten = 0

\* C24 amended: the same holds for every run whose stream is still writable
\* when the terminal event is sent; in every run at most one event of type
\* 'error' or 'complete' is written, nothing is written after it, and no
\* 'complete' event is written once performAnalysis has failed.
C24_OneTerminalEventWhileWritable ==
    /\ errorsWritten + completesWritten <= 1
    /\ errorsWritten + completesWritten = 1 =>
          written[Len(written)] \in {"error", "complete"}
    /\ analysisOutcome = "thrown" => completesWritten = 0
    /\ (taskOver /\ writerState = "closed") =>
          /\ analysisOutcome = "thrown" =>
                errorsWritten = 1 /\ written[Len(written)] = "error"
          /\ analysisOutcome = "returned" =>
                completesWritten = 1 /\ errorsWritten = 0

\* performAnalysis wrote events and failed; the error event ended the stream
C24_Witness ==
    /\ rpc = "settled"
    /\ analysisOutcome = "thrown"
    /\ Len(written) >= 3
    /\ written[Len(written)] = "error"


\* C29 as stated: on every path the writer is eventually closed, it is closed
\* once, and no event is written after it is closed.
C29_WriterEventuallyClosed ==
    /\ <>(writerState = "closed")
    /\ [](closeCalls <= 1)
    /\ [](closeCalls = 1 => Len(written) = writtenAtClose)

\* C29 amended: on every path writer.close() is eventually called, it is
\* called once, no event is written after the call, and the call leaves the
\* writer closed unless the stream was errored before, in which case close()
\* rejects and the stream stays errored.
C29_CloseCalledOnce ==
    /\ <>(closeCalls = 1)
    /\ [](closeCalls <= 1)
    /\ [](closeCalls = 1 => Len(written) = writtenAtClose)
    /\ [](taskOver => closeCalls = 1)
    /\ []((taskOver /\ writerState # "errored") => writerState = "closed")

\* the write of the 'complete' event failed, the catch block and the finally
\* block ran and close() was called on the errored stream
C29_Witness ==
    /\ rpc = "rejected"
    /\ analysisOutcome = "returned"
    /\ writerState = "errored"
    /\ closeCalls = 1
    /\ eventsOfType(written, "complete") = 0


\* C25: whichever path produced it (structured extraction, simplified text
\* extraction, heuristic fallback or mock mode), a returned result carries the
\* canonical display name of the provider argument in its provider field.
C25_CanonicalProviderName ==
    ipc = "returned" => result.provider = providerDisplayName(provider)


\* a >= b on the scores, as JavaScript evaluates it: false when either is NaN
scoreAtLeast(a, b) == a # NaN /\ b # NaN /\ a >= b

\* C26: the list analyzeCompetitors returns and each provider's list are in
\* descending order of visibilityScore: of two adjacent entries the earlier
\* one's score is greater than or equal to the later one's, for any input,
\* the empty response list included.
C26_SortedByVisibility ==
    phase = "done" =>
      \A ranking \in AllRankings : \A i \in 1..(Len(ranking) - 1) :
        scoreAtLeast(ranking[i].visibilityScore, ranking[i + 1].visibilityScore)


RECURSIVE bucketed(_, _)
\* the sum over the returned provider rankings of the number of responses of
\* that provider
bucketed(rankings, list) ==
    IF rankings = <<>> THEN 0
    ELSE providerResponseCount(list, Head(rankings).provider)
         + bucketed(Tail(rankings), list)

\* C27: every response belongs to exactly one provider's partition whatever
\* its label, so the per-provider response counts add up to the number of
\* responses.
C27_PartitionWithoutLoss ==
    phase = "done" =>
      /\ \A i \in 1..Len(responses) :
           Cardinality({j \in 1..Len(providerRankings) :
                           providerRankings[j].provider = responses[i].provider}) = 1
      /\ bucketed(providerRankings, responses) = Len(responses)


\* C28: completedAnalyses has risen by exactly 1 for every unit that settled,
\* succeeded or failed; the progress values of successive events never
\* decrease and never exceed 100; on return the counter equals
\* prompts x providers x (1 + competitors).
C28_CounterAndProgress ==
    /\ completedAnalyses = Len(outcomes)
    /\ completedAnalyses = unit - 1
    /\ \A i \in 1..Len(progressEvents) :
         /\ progressEvents[i] >= 0
         /\ progressEvents[i] <= 100
         /\ i > 1 => progressEvents[i - 1] <= progressEvents[i]
    /\ opc = "returned" =>
         completedAnalyses = Len(prompts) * Len(runProviders) * (1 + Len(runCompetitors))

\* a run over the company and a competitor returned after units that
\* succeeded and units that failed
C28_Witness ==
    /\ opc = "returned"
    /\ runCompetitors # <<>>
    /\ completedAnalyses >= 4
    /\ Thrown \in Range(outcomes)
    /\ "AIResponse" \in Range(outcomes)
    /\ progressEvents[Len(progressEvents)] > progressEvents[1]


\* every ranking position and every brandPosition of the responses is at least 1
positionsFromOne ==
    \A i \in 1..Len(responses) :
        /\ responses[i].brandPosition = NoPosition \/ responses[i].brandPosition >= 1
        /\ \A j \in 1..Len(responses[i].rankings) : responses[i].rankings[j].position >= 1

\* a score (in tenths) is a number between 0 and 100
scoreInRange(score) == score # NaN /\ score >= 0 /\ score <= 1000

\* C30: for a non-empty response list whose positions are integers from 1 up,
\* the brand summary of analyzeCompetitors followed by calculateBrandScores has
\* overallScore, visibilityScore, sentimentScore and shareOfVoice between 0
\* and 100.
C30_BrandSummaryInRange ==
    (phase = "done" /\ responses # <<>> /\ positionsFromOne) =>
        /\ scoreInRange(brandScores.overallScore)
        /\ scoreInRange(brandScores.visibilityScore)
        /\ scoreInRange(brandScores.sentimentScore)
        /\ scoreInRange(brandScores.shareOfVoice)

\* the brand was named in no response: visibility and share are 0, the
\* average position is the sentinel 99 and the overall score is still not
\* negative
C30_Witness ==
    /\ phase = "done"
    /\ Len(responses) = 2
    /\ positionsFromOne
    /\ brandScores.visibilityScore = 0
    /\ brandScores.averagePosition = 990
    /\ brandScores.overallScore > 0

====
